---- MODULE Spec2Model ----
(***************************************************************************)
(* Model of backend/server.py of the handwritten-table converter: the      *)
(* response normalisation of extract_table_from_image, the three request   *)
(* handlers upload_image, generate_excel and get_extractions, and the      *)
(* table store (the table_extractions collection) they share.              *)
(*                                                                         *)
(* A text is a sequence of characters, each a string.  A Python value (the *)
(* result of json.loads, or None) is a record [kind, items, text]:         *)
(*   kind "none"   : None (also JSON null)                                 *)
(*   kind "str"    : text holds the characters                             *)
(*   kind "int"    : text holds the decimal digits                         *)
(*   kind "list"   : items holds the elements                              *)
(*   kind "dict"   : items holds the members, each of kind "member" with   *)
(*                   items = <<key, value>>                                *)
(***************************************************************************)
EXTENDS Naturals, Sequences, FiniteSets

VARIABLES EMERGENT_AVAILABLE, keyPresent, coercing, store, now, uuidCount,
          started, req, delivered, excel, listing

vars == <<EMERGENT_AVAILABLE, keyPresent, coercing, store, now, uuidCount,
          started, req, delivered, excel, listing>>

----------------------------------------------------------------------------
(* Python values *)

PyNone == [kind |-> "none", items |-> <<>>, text |-> <<>>]

PyStr(t) == [kind |-> "str", items |-> <<>>, text |-> t]

PyInt(t) == [kind |-> "int", items |-> <<>>, text |-> t]

PyList(xs) == [kind |-> "list", items |-> xs, text |-> <<>>]

PyDict(ms) == [kind |-> "dict", items |-> ms, text |-> <<>>]

PyMember(k, v) == [kind |-> "member", items |-> <<k, v>>, text |-> <<>>]

----------------------------------------------------------------------------
(* str.strip and str.startswith *)

\* the characters str.strip() removes when called without argument
PyWhitespace == {" ", "\n", "\f"}

\* the characters json.loads skips between tokens
JsonWhitespace == {" ", "\n"}

RECURSIVE LStrip(_, _)
LStrip(s, chars) ==
    IF s # <<>> /\ Head(s) \in chars THEN LStrip(Tail(s), chars) ELSE s

RECURSIVE RStrip(_, _)
RStrip(s, chars) ==
    IF s # <<>> /\ s[Len(s)] \in chars
    THEN RStrip(SubSeq(s, 1, Len(s) - 1), chars)
    ELSE s

\* s.strip(chars): removes from both ends every character of the set chars
Strip(s, chars) == RStrip(LStrip(s, chars), chars)

StartsWith(s, p) == Len(s) >= Len(p) /\ SubSeq(s, 1, Len(p)) = p

----------------------------------------------------------------------------
(* json.loads, for the JSON that can be written with the model's alphabet:  *)
(* arrays, objects, strings without escapes, non-negative integers, null.   *)

Digits == {"0", "1", "2"}

ParseFail == [ok |-> FALSE, val |-> PyNone, pos |-> 0]

ParseOk(v, p) == [ok |-> TRUE, val |-> v, pos |-> p]

\* the first index from i on that holds no JSON whitespace (Len(s)+1 if none)
RECURSIVE SkipWs(_, _)
SkipWs(s, i) ==
    IF i <= Len(s) /\ s[i] \in JsonWhitespace THEN SkipWs(s, i + 1) ELSE i

\* s[i - 1] is the opening quote; scans to the closing one, and fails when
\* there is none or a control character comes first
ScanString(s, i, acc) ==
    LET quotes == {j \in i..Len(s) : s[j] = "\""} IN
    IF quotes = {} THEN ParseFail
    ELSE LET e == CHOOSE j \in quotes : \A k \in quotes : j <= k IN
         IF \E k \in i..(e - 1) : s[k] \in {"\n", "\f"} THEN ParseFail
         ELSE ParseOk(PyStr(acc \o SubSeq(s, i, e - 1)), e + 1)

\* the end of the run of digits that starts at i
RECURSIVE DigitsEnd(_, _)
DigitsEnd(s, i) ==
    IF i <= Len(s) /\ s[i] \in Digits THEN DigitsEnd(s, i + 1) ELSE i

ParseNumber(s, i) ==
    IF s[i] = "0" THEN ParseOk(PyInt(<<"0">>), i + 1)
    ELSE LET e == DigitsEnd(s, i) IN ParseOk(PyInt(SubSeq(s, i, e - 1)), e)

RECURSIVE ParseValue(_, _)
RECURSIVE ParseElements(_, _, _)
RECURSIVE ParseMembers(_, _, _)

\* i is the index of the first character of a value
ParseValue(s, i) ==
    IF i > Len(s) THEN ParseFail
    ELSE IF s[i] = "[" THEN
        LET j == SkipWs(s, i + 1) IN
        IF j <= Len(s) /\ s[j] = "]" THEN ParseOk(PyList(<<>>), j + 1)
        ELSE ParseElements(s, j, <<>>)
    ELSE IF s[i] = "{" THEN
        LET j == SkipWs(s, i + 1) IN
        IF j <= Len(s) /\ s[j] = "}" THEN ParseOk(PyDict(<<>>), j + 1)
        ELSE ParseMembers(s, j, <<>>)
    ELSE IF s[i] = "\"" THEN ScanString(s, i + 1, <<>>)
    ELSE IF s[i] \in Digits THEN ParseNumber(s, i)
    ELSE IF i + 3 <= Len(s) /\ SubSeq(s, i, i + 3) = <<"n", "u", "l", "l">>
         THEN ParseOk(PyNone, i + 4)
    ELSE ParseFail

ParseElements(s, i, acc) ==
    LET r == ParseValue(s, i) IN
    IF ~r.ok THEN ParseFail
    ELSE LET j == SkipWs(s, r.pos) IN
         IF j > Len(s) THEN ParseFail
         ELSE IF s[j] = "," THEN ParseElements(s, SkipWs(s, j + 1), Append(acc, r.val))
         ELSE IF s[j] = "]" THEN ParseOk(PyList(Append(acc, r.val)), j + 1)
         ELSE ParseFail

ParseMembers(s, i, acc) ==
    IF i > Len(s) \/ s[i] # "\"" THEN ParseFail
    ELSE LET k == ScanString(s, i + 1, <<>>) IN
         IF ~k.ok THEN ParseFail
         ELSE LET c == SkipWs(s, k.pos) IN
              IF c > Len(s) \/ s[c] # ":" THEN ParseFail
              ELSE LET r == ParseValue(s, SkipWs(s, c + 1)) IN
                   IF ~r.ok THEN ParseFail
                   ELSE LET j == SkipWs(s, r.pos)
                            ms == Append(acc, PyMember(k.val, r.val)) IN
                        IF j > Len(s) THEN ParseFail
                        ELSE IF s[j] = "," THEN ParseMembers(s, SkipWs(s, j + 1), ms)
                        ELSE IF s[j] = "}" THEN ParseOk(PyDict(ms), j + 1)
                        ELSE ParseFail

\* json.loads(s): ok = FALSE stands for json.JSONDecodeError
json_loads(s) ==
    LET r == ParseValue(s, SkipWs(s, 1)) IN
    IF r.ok /\ SkipWs(s, r.pos) = Len(s) + 1
    THEN [ok |-> TRUE, val |-> r.val]
    ELSE [ok |-> FALSE, val |-> PyNone]

----------------------------------------------------------------------------
(* The texts the AI capability may answer with: a payload, bare or wrapped  *)
(* in a code fence.                                                         *)

Quoted(t) == <<"\"">> \o t \o <<"\"">>

Bracketed(t) == <<"[">> \o t \o <<"]">>

Comma == <<",">>

\* the backtick character (a string of the module cannot hold it)
BT == "backtick"

Fence == <<BT, BT, BT>>

JsonTag == <<"j", "s", "o", "n">>

LF == <<"\n">>

\* payloads json.loads turns into a non-empty list of lists
GridPayloads ==
    { Bracketed(Bracketed(Quoted(<<"a">>))),
      Bracketed(Bracketed(Quoted(<<"n">>) \o Comma \o Quoted(<<"a">>)) \o Comma
                \o Bracketed(Quoted(<<"1">>) \o Comma \o Quoted(<<"2">>))),
      Bracketed(Bracketed(Quoted(JsonTag)) \o Comma \o Bracketed(Quoted(<<BT>>))),
      Bracketed(Bracketed(<<>>)),
      Bracketed(Bracketed(Quoted(<<"a">>) \o Comma \o Quoted(<<"n">>)) \o Comma
                \o Bracketed(Quoted(<<"1">>))),
      Bracketed(Bracketed(<<"1", ",", "2", "0">>)),
      <<" ">> \o Bracketed(<<" ">> \o Bracketed(<<" ">> \o Quoted(<<"a">>) \o <<" ">>) \o LF) \o LF,
      Bracketed(Bracketed(<<"n", "u", "l", "l">>)),
      Bracketed(Bracketed(Bracketed(Quoted(<<"a">>)))),
      <<"\f">> \o Bracketed(Bracketed(Quoted(<<"a">>))) \o <<"\f">> }

\* payloads json.loads accepts, whose value is no non-empty list of lists
OtherJsonPayloads ==
    { <<"{", "}">>,
      <<"{">> \o Quoted(<<"a">>) \o <<":", "1", "}">>,
      <<"1">>,
      <<"[", "]">>,
      Bracketed(<<"1", ",", "2">>),
      Bracketed(Quoted(<<"a">>)),
      <<"n", "u", "l", "l">>,
      Bracketed(Bracketed(Quoted(<<"a">>)) \o Comma \o <<"2">>),
      Quoted(<<"a">>),
      Bracketed(<<"{", "}">>) }

\* payloads json.loads rejects
BrokenPayloads ==
    { <<>>,
      <<"a">>,
      <<"[">> \o Bracketed(Quoted(<<"a">>)),
      Bracketed(Bracketed(Quoted(<<"a">>))) \o <<"]">>,
      Bracketed(Bracketed(Quoted(<<"a">>) \o Comma)),
      <<"0", "1">>,
      JsonTag,
      Bracketed(Bracketed(Quoted(<<"a", "\n">>))),
      Bracketed(Bracketed(<<"\f">> \o Quoted(<<"a">>))),
      <<"n">> \o Bracketed(Bracketed(Quoted(<<"a">>))) }

Payloads == GridPayloads \cup OtherJsonPayloads \cup BrokenPayloads

\* fences closed by three backticks, with and without the json tag
ClosedFences == {"json", "bare", "jsonTight", "bareTight", "jsonPadded"}

Fences == {"none", "jsonOpen"} \cup ClosedFences

Wrap(t, fence) ==
    CASE fence = "none"       -> t
      [] fence = "json"       -> Fence \o JsonTag \o LF \o t \o LF \o Fence
      [] fence = "bare"       -> Fence \o LF \o t \o LF \o Fence
      [] fence = "jsonTight"  -> Fence \o JsonTag \o t \o Fence
      [] fence = "bareTight"  -> Fence \o t \o Fence
      [] fence = "jsonPadded" -> <<" ">> \o LF \o Fence \o JsonTag \o LF \o t \o LF \o Fence \o LF
      [] fence = "jsonOpen"   -> Fence \o JsonTag \o LF \o t

----------------------------------------------------------------------------
(* extract_table_from_image *)

\* the characters of the argument of response_text.strip of line 108
FenceChars == {BT, "j", "s", "o", "n"}

\* as NormalizeResponse, with the fence characters removed from the front only
NormalizeResponseFront(response) ==
    LET response_text == Strip(response, PyWhitespace) IN
    Strip(IF StartsWith(response_text, Fence)
          THEN LStrip(LStrip(response_text, FenceChars), {BT})
          ELSE response_text,
          PyWhitespace)

\* lines 106-109: the text handed to json.loads
NormalizeResponse(response) ==
    LET response_text == Strip(response, PyWhitespace) IN
    Strip(IF StartsWith(response_text, Fence)
          THEN Strip(Strip(response_text, FenceChars), {BT})
          ELSE response_text,
          PyWhitespace)

ExtractResult(success, table_data, message) ==
    [success |-> success, table_data |-> table_data, message |-> message]

MockGrid ==
    PyList(<< PyList(<<PyStr(<<"Name">>), PyStr(<<"Age">>), PyStr(<<"City">>)>>),
              PyList(<<PyStr(<<"John">>), PyStr(<<"25">>), PyStr(<<"NYC">>)>>),
              PyList(<<PyStr(<<"Alice">>), PyStr(<<"30">>), PyStr(<<"LA">>)>>) >>)

\* as MockResult, with the message of an extraction from an AI response
MockResultUnmarked == ExtractResult(TRUE, MockGrid, "Table extracted successfully")

\* lines 74-83
MockResult == ExtractResult(TRUE, MockGrid, "Table extracted successfully (Mock data)")

\* as InvalidTableData, without the check for an empty list
NotAList(table_data) == table_data.kind # "list"

\* line 111: the check on the parsed value
InvalidTableData(table_data) == table_data.kind # "list" \/ table_data.items = <<>>

\* lines 105-125, for a response that send_message returned
ResultOfResponse(response) ==
    LET parsed == json_loads(NormalizeResponse(response)) IN
    IF ~parsed.ok
    THEN ExtractResult(FALSE, PyNone, "Failed to parse extracted data")
    ELSE IF InvalidTableData(parsed.val)
    THEN ExtractResult(FALSE, PyNone, "Error: Invalid table data format")
    ELSE ExtractResult(TRUE, parsed.val, "Table extracted successfully")

\* lines 123-125, for an exception of LlmChat or send_message
ResultOfFailure == ExtractResult(FALSE, PyNone, "Error: AI capability failed")

----------------------------------------------------------------------------
(* The pydantic models TableData and ProcessingResult *)

\* the validation of a value as List[List[str]]; a build whose pydantic
\* coerces (the variable coercing) accepts an int where a str is declared
ValidGrid(v, coerce) ==
    /\ v.kind = "list"
    /\ \A i \in DOMAIN v.items :
          /\ v.items[i].kind = "list"
          /\ \A j \in DOMAIN v.items[i].items :
                \/ v.items[i].items[j].kind = "str"
                \/ coerce /\ v.items[i].items[j].kind = "int"

\* the value of a validated List[List[str]] field: an int cell becomes its str
CoerceGrid(v) ==
    PyList([i \in DOMAIN v.items |->
              PyList([j \in DOMAIN v.items[i].items |->
                        PyStr(v.items[i].items[j].text)])])

NoId == 0

NoRecord == [id |-> NoId, filename |-> "", extracted_data |-> PyNone, created_at |-> 0]

\* TableData(filename=..., extracted_data=...): id from uuid.uuid4, created_at
\* from datetime.utcnow
TableData(id, filename, extracted_data, created_at) ==
    [id |-> id, filename |-> filename,
     extracted_data |-> CoerceGrid(extracted_data), created_at |-> created_at]

\* a response of upload_image: a ProcessingResult, or the error of status 400/500
Response(status, success, message, table_data, processing_id) ==
    [status |-> status, success |-> success, message |-> message,
     table_data |-> table_data, processing_id |-> processing_id]

NoResponse == Response(0, FALSE, "", PyNone, NoId)

\* line 181
SuccessResponse(result, record) ==
    Response(200, TRUE, result.message, CoerceGrid(result.table_data), record.id)

\* line 184
FailureResponse(result) == Response(200, FALSE, result.message, PyNone, NoId)

----------------------------------------------------------------------------
(* The requests *)

Slots == {1, 2}

MaxUploads == 2

ImagePrefix == <<"i", "m", "a", "g", "e", "/">>

ContentType(t) == [present |-> TRUE, text |-> t]

\* an upload whose part carries no Content-Type header: content_type is None
NoContentType == [present |-> FALSE, text |-> <<>>]

OtherContentTypes ==
    { ContentType(<<"t", "e", "x", "t", "/", "c", "s", "v">>),
      ContentType(<<"i", "m", "a", "g", "e">>),
      ContentType(<<>>),
      NoContentType }

ImagePng == ContentType(ImagePrefix \o <<"p", "n", "g">>)

ImageJpeg == ContentType(ImagePrefix \o <<"j", "p", "e", "g">>)

NoResult == ExtractResult(FALSE, PyNone, "")

IdleReq ==
    [pc |-> "idle", content_type |-> NoContentType, filename |-> "",
     payload |-> <<>>, fence |-> "none", response_text |-> <<>>,
     raised |-> FALSE, aiCalls |-> 0,
     result |-> NoResult, record |-> NoRecord, resp |-> NoResponse]

NoExcel == [status |-> 0, processing_id |-> NoId, built |-> FALSE,
            table_data |-> PyNone, widths |-> <<>>, filename |-> ""]

NoListing == [status |-> 0, records |-> <<>>]

\* the response of a generate_excel or get_extractions request is held until
\* the next step
NoOutput == excel' = NoExcel /\ listing' = NoListing

----------------------------------------------------------------------------
(* The table store: db.table_extractions, a sequence in insertion order *)

\* as uuid4, with the same id at every call
uuid4Fixed(count) == 1

\* uuid.uuid4(): an id no earlier call returned
uuid4(count) == count + 1

\* as find_one, with the filter ignored
find_first(records, processing_id) ==
    IF records = <<>> THEN [found |-> FALSE, record |-> NoRecord]
    ELSE [found |-> TRUE, record |-> records[1]]

\* find_one({"id": processing_id}): the first match, or None
find_one(records, processing_id) ==
    LET hits == {i \in DOMAIN records : records[i].id = processing_id} IN
    IF hits = {} THEN [found |-> FALSE, record |-> NoRecord]
    ELSE [found |-> TRUE,
          record |-> records[CHOOSE i \in hits : \A k \in hits : i <= k]]

\* rec placed into sorted, which is in descending order of created_at; among
\* equal created_at the store is free to put rec first or last
InsertByCreatedAt(sorted, rec, tieFirst) ==
    LET ahead == {i \in DOMAIN sorted :
                    \/ sorted[i].created_at > rec.created_at
                    \/ ~tieFirst /\ sorted[i].created_at = rec.created_at}
        k == Cardinality(ahead) IN
    SubSeq(sorted, 1, k) \o <<rec>> \o SubSeq(sorted, k + 1, Len(sorted))

\* as SortByCreatedAtDesc, in the order of insertion
Unsorted(records, tieFirst) == records

\* find().sort("created_at", -1)
RECURSIVE SortByCreatedAtDesc(_, _)
SortByCreatedAtDesc(records, tieFirst) ==
    IF records = <<>> THEN <<>>
    ELSE InsertByCreatedAt(
             SortByCreatedAtDesc(SubSeq(records, 1, Len(records) - 1), tieFirst),
             records[Len(records)], tieFirst)

\* to_list(length): the first length elements
to_list(records, length) ==
    IF Len(records) <= length THEN records ELSE SubSeq(records, 1, length)

ListLimit == 50

\* create_excel_file: the cell values written by lines 138-140
create_excel_file(table_data) == table_data

\* min of line 156
Min(a, b) == IF a <= b THEN a ELSE b

\* str(value) for the value of a cell; a cell without value holds None
StrOf(v) == IF v.kind = "none" THEN <<"N", "o", "n", "e">> ELSE v.text

\* worksheet.max_row and worksheet.max_column: the largest row and column
\* index of a cell written by lines 138-140; 0 when none was written
MaxRow(table_data) ==
    LET rows == {i \in DOMAIN table_data.items : table_data.items[i].items # <<>>} IN
    IF rows = {} THEN 0 ELSE CHOOSE i \in rows : \A k \in rows : k <= i

MaxColumn(table_data) ==
    LET lens == {Len(table_data.items[i].items) : i \in DOMAIN table_data.items} IN
    CHOOSE n \in lens \cup {0} : \A k \in lens : k <= n

\* cell.value of the cell of row i in column j, as worksheet.columns yields
\* it: a cell that lines 138-140 did not write is created with the value None
CellValue(table_data, i, j) ==
    IF j <= Len(table_data.items[i].items)
    THEN table_data.items[i].items[j]
    ELSE PyNone

WidthPadding == 2

MaxWidth == 50

\* lines 148-156 for the column j
ColumnWidth(table_data, j) ==
    LET lens == {Len(StrOf(CellValue(table_data, i, j))) : i \in 1..MaxRow(table_data)}
        max_length == CHOOSE n \in lens \cup {0} : \A k \in lens : k <= n IN
    Min(max_length + WidthPadding, MaxWidth)

\* lines 147-156: worksheet.column_dimensions[...].width by column index
ColumnWidths(table_data) ==
    [j \in 1..MaxColumn(table_data) |-> ColumnWidth(table_data, j)]

----------------------------------------------------------------------------
(* upload_image *)

\* datetime.utcnow(): the reading dt after the latest one (variable now)
utcnow(dt) == now + dt

\* lines 178-184 up to the call of insert_one, after extract_table_from_image
\* returned result; a ValidationError of TableData ends the request with a 500
AfterExtract(q, result, dt) ==
    IF result.success
    THEN IF ValidGrid(result.table_data, coercing)
         THEN [q EXCEPT !.pc = "inserting", !.result = result,
                        !.record = TableData(uuid4(uuidCount), q.filename,
                                             result.table_data, utcnow(dt))]
         ELSE [q EXCEPT !.pc = "done", !.result = result,
                        !.resp = Response(500, FALSE, "Internal Server Error",
                                          PyNone, NoId)]
    ELSE [q EXCEPT !.pc = "done", !.result = result,
                   !.resp = FailureResponse(result)]

\* the step from the end of extract_table_from_image to the next suspension
Continue(r, q, result, dt) ==
    LET after == AfterExtract(q, result, dt) IN
    /\ req' = [req EXCEPT ![r] = after]
    /\ uuidCount' = IF after.pc = "inserting" THEN uuidCount + 1 ELSE uuidCount
    /\ now' = IF after.pc = "inserting" THEN after.record.created_at ELSE now

\* lines 172-175: the content type check, then the call of file.read; the
\* request takes the first free slot
UploadBegin(r, content_type, filename, max) ==
    /\ req[r].pc \in {"idle", "done"}
    /\ \A k \in Slots : k < r => req[k].pc \notin {"idle", "done"}
    /\ started < max
    /\ started' = started + 1
    /\ LET q == [IdleReq EXCEPT !.content_type = content_type,
                                !.filename = filename] IN
       req' = [req EXCEPT ![r] =
                 IF ~content_type.present
                 THEN [q EXCEPT !.pc = "done",
                                !.resp = Response(500, FALSE, "Internal Server Error",
                                                  PyNone, NoId)]
                 ELSE IF ~StartsWith(content_type.text, ImagePrefix)
                 THEN [q EXCEPT !.pc = "done",
                                !.resp = Response(400, FALSE,
                                                  "Only image files are allowed",
                                                  PyNone, NoId)]
                 ELSE [q EXCEPT !.pc = "reading"]]
    /\ NoOutput
    /\ UNCHANGED <<EMERGENT_AVAILABLE, keyPresent, coercing, store, now,
                   uuidCount, delivered>>

\* file.read returned; lines 74-103: the mock result, or the call of the AI
\* capability
ReadDone(r, dt) ==
    /\ req[r].pc = "reading"
    /\ IF ~EMERGENT_AVAILABLE
       THEN Continue(r, req[r], MockResult, dt)
       ELSE /\ req' = [req EXCEPT ![r].pc = "calling",
                                  ![r].aiCalls = req[r].aiCalls + 1]
            /\ UNCHANGED <<uuidCount, now>>
    /\ NoOutput
    /\ UNCHANGED <<EMERGENT_AVAILABLE, keyPresent, coercing, store,
                   started, delivered>>

\* send_message returned the text Wrap(payload, fence); lines 105-121 and on
AIReturn(r, payload, fence, dt) ==
    /\ req[r].pc = "calling"
    /\ keyPresent
    /\ Continue(r, [req[r] EXCEPT !.payload = payload, !.fence = fence,
                                  !.response_text = NormalizeResponse(Wrap(payload, fence))],
                ResultOfResponse(Wrap(payload, fence)), dt)
    /\ NoOutput
    /\ UNCHANGED <<EMERGENT_AVAILABLE, keyPresent, coercing, store,
                   started, delivered>>

\* as AIRaise, with the call made again
AIRetry(r) ==
    /\ req[r].pc = "calling"
    /\ req[r].aiCalls < 3
    /\ req' = [req EXCEPT ![r].raised = TRUE, ![r].aiCalls = req[r].aiCalls + 1]
    /\ NoOutput
    /\ UNCHANGED <<EMERGENT_AVAILABLE, keyPresent, coercing, store, now,
                   uuidCount, started, delivered>>

\* LlmChat or send_message raised; lines 123-125 and on
AIRaise(r) ==
    /\ req[r].pc = "calling"
    /\ Continue(r, [req[r] EXCEPT !.raised = TRUE], ResultOfFailure, 0)
    /\ NoOutput
    /\ UNCHANGED <<EMERGENT_AVAILABLE, keyPresent, coercing, store,
                   started, delivered>>

\* as InsertApply, with the document lost
InsertLost(r) ==
    /\ req[r].pc = "inserting"
    /\ req' = [req EXCEPT ![r].pc = "inserted"]
    /\ NoOutput
    /\ UNCHANGED <<EMERGENT_AVAILABLE, keyPresent, coercing, store, now,
                   uuidCount, started, delivered>>

\* line 180: the store takes the document of insert_one
InsertApply(r) ==
    /\ req[r].pc = "inserting"
    /\ store' = Append(store, req[r].record)
    /\ req' = [req EXCEPT ![r].pc = "inserted"]
    /\ NoOutput
    /\ UNCHANGED <<EMERGENT_AVAILABLE, keyPresent, coercing, now, uuidCount,
                   started, delivered>>

\* insert_one returned; line 181
UploadRespond(r) ==
    /\ req[r].pc = "inserted"
    /\ LET resp == SuccessResponse(req[r].result, req[r].record) IN
       /\ req' = [req EXCEPT ![r].pc = "done", ![r].resp = resp]
       /\ delivered' = delivered \cup
             {[processing_id |-> resp.processing_id, filename |-> req[r].filename,
               table_data |-> resp.table_data]}
    /\ NoOutput
    /\ UNCHANGED <<EMERGENT_AVAILABLE, keyPresent, coercing, store, now,
                   uuidCount, started>>

----------------------------------------------------------------------------
(* generate_excel and get_extractions *)

\* lines 188-199
GenerateExcel(processing_id) ==
    /\ LET hit == find_one(store, processing_id) IN
       excel' = IF ~hit.found
                THEN [status |-> 404, processing_id |-> processing_id,
                      built |-> FALSE, table_data |-> PyNone, widths |-> <<>>,
                      filename |-> ""]
                ELSE [status |-> 200, processing_id |-> processing_id,
                      built |-> TRUE,
                      table_data |-> create_excel_file(hit.record.extracted_data),
                      widths |-> ColumnWidths(hit.record.extracted_data),
                      filename |-> hit.record.filename]
    /\ listing' = NoListing
    /\ UNCHANGED <<EMERGENT_AVAILABLE, keyPresent, coercing, store, now,
                   uuidCount, started, req, delivered>>

\* lines 203-204
GetExtractions(tieFirst) ==
    /\ listing' = [status |-> 200,
                   records |-> to_list(SortByCreatedAtDesc(store, tieFirst), ListLimit)]
    /\ excel' = NoExcel
    /\ UNCHANGED <<EMERGENT_AVAILABLE, keyPresent, coercing, store, now,
                   uuidCount, started, req, delivered>>

----------------------------------------------------------------------------
(* Specifications *)

\* between two readings of datetime.utcnow the clock stands or advances
ClockSteps == {0, 1}

\* the uploads of the specification of concurrent requests, each a content
\* type and a filename
MainUploads ==
    { <<ImagePng, "scan.png">>,
      <<ImageJpeg, "notes.jpg">>,
      <<ContentType(<<"t", "e", "x", "t", "/", "c", "s", "v">>), "table.csv">>,
      <<NoContentType, "scan.png">> }

\* its responses, each a payload and a fence: a grid and an empty list
MainResponses ==
    { <<Bracketed(Bracketed(Quoted(<<"a">>) \o Comma \o Quoted(<<"n">>))), "json">>,
      <<<<"[", "]">>, "bare">> }

\* the process after start-up: the import of line 21 succeeded or not, the
\* credential is configured or not, the installed pydantic coerces or not
Init ==
    /\ EMERGENT_AVAILABLE \in BOOLEAN
    /\ keyPresent \in BOOLEAN
    /\ coercing \in BOOLEAN
    /\ store = <<>>
    /\ now = 0
    /\ uuidCount = 0
    /\ started = 0
    /\ req = [r \in Slots |-> IdleReq]
    /\ delivered = {}
    /\ excel = NoExcel
    /\ listing = NoListing

Next ==
    \/ \E r \in Slots, u \in MainUploads : UploadBegin(r, u[1], u[2], MaxUploads)
    \/ \E r \in Slots, dt \in ClockSteps : ReadDone(r, dt)
    \/ \E r \in Slots, t \in MainResponses, dt \in ClockSteps :
          AIReturn(r, t[1], t[2], dt)
    \/ \E r \in Slots : AIRaise(r)
    \/ \E r \in Slots : InsertApply(r)
    \/ \E r \in Slots : UploadRespond(r)
    \/ \E id \in 1..(uuidCount + 1) : GenerateExcel(id)
    \/ \E tieFirst \in BOOLEAN : GetExtractions(tieFirst)

Spec == Init /\ [][Next]_vars

\* Requests one after the other, with every content type and every response
MaxSeqUploads == 1

NextSeq ==
    \/ \E ct \in {ImagePng} \cup OtherContentTypes :
          UploadBegin(1, ct, "scan.png", MaxSeqUploads)
    \/ \E dt \in ClockSteps : ReadDone(1, dt)
    \/ \E p \in Payloads, f \in Fences, dt \in ClockSteps : AIReturn(1, p, f, dt)
    \/ AIRaise(1)
    \/ InsertApply(1)
    \/ UploadRespond(1)
    \/ \E id \in 1..(uuidCount + 1) : GenerateExcel(id)
    \/ \E tieFirst \in BOOLEAN : GetExtractions(tieFirst)

SpecSeq == Init /\ [][NextSeq]_vars

\* Uploads and exports one after the other, with grids of short and long
\* cells, rectangular and jagged
MaxCellLen == 49

\* the text of n characters c
Repeat(c, n) == [k \in 1..n |-> c]

\* the rows of those grids, as JSON texts
WidthRows ==
    { Bracketed(<<>>),
      Bracketed(Quoted(<<"a">>)),
      Bracketed(Quoted(<<"a">>) \o Comma \o Quoted(<<"n">>)),
      Bracketed(Quoted(<<>>) \o Comma \o Quoted(Repeat("a", MaxWidth - WidthPadding))),
      Bracketed(Quoted(Repeat("n", MaxCellLen))),
      Bracketed(Quoted(<<"N", "a", "m", "e">>) \o Comma \o <<"2", "0">> \o Comma
                \o Quoted(<<"a">>)) }

\* the grids of one and of two rows
WidthPayloads ==
    {Bracketed(r) : r \in WidthRows}
        \cup {Bracketed(r[1] \o Comma \o r[2]) : r \in WidthRows \X WidthRows}

NextWidth ==
    \/ UploadBegin(1, ImagePng, "scan.png", MaxSeqUploads)
    \/ ReadDone(1, 1)
    \/ \E p \in WidthPayloads : AIReturn(1, p, "none", 1)
    \/ InsertApply(1)
    \/ UploadRespond(1)
    \/ \E id \in 1..(uuidCount + 1) : GenerateExcel(id)

SpecWidth == Init /\ [][NextWidth]_vars

\* Many uploads one after the other to a process in mock mode, so that the
\* store grows past ListLimit; the clock may stand at its first reading for
\* any number of uploads and advances with every reading after that
MaxListUploads == 51

InitList == Init /\ ~EMERGENT_AVAILABLE /\ ~keyPresent /\ coercing

ListClockSteps == IF now = 0 THEN {0, 1} ELSE {1}

NextList ==
    \/ UploadBegin(1, ImagePng, "scan.png", MaxListUploads)
    \/ \E dt \in ListClockSteps : ReadDone(1, dt)
    \/ InsertApply(1)
    \/ UploadRespond(1)
    \/ \E tieFirst \in BOOLEAN : GetExtractions(tieFirst)

SpecList == InitList /\ [][NextList]_vars

----------------------------------------------------------------------------
(* The claims *)

\* the request passed the content type check of line 172
IsImage(q) == q.content_type.present /\ StartsWith(q.content_type.text, ImagePrefix)

\* extract_table_from_image has returned to upload_image
Extracted(q) == q.pc \in {"inserting", "inserted", "done"} /\ IsImage(q)

\* ... after send_message returned a text
Answered(q) == Extracted(q) /\ q.aiCalls > 0 /\ ~q.raised

\* a non-empty sequence whose elements are all sequences
IsGridValue(v) ==
    /\ v.kind = "list"
    /\ v.items # <<>>
    /\ \A i \in DOMAIN v.items : v.items[i].kind = "list"

\* C1: whenever the text handed to json.loads is no valid JSON, or its value
\* is not a non-empty sequence of sequences, extract_table_from_image returns
\* success = false and table_data = null.
C1_RejectsNonGrid ==
    \A r \in Slots :
        Answered(req[r]) =>
            LET parsed == json_loads(req[r].response_text) IN
            (~parsed.ok \/ ~IsGridValue(parsed.val)) =>
                /\ ~req[r].result.success
                /\ req[r].result.table_data = PyNone

\* C2: for a payload that parses to a grid, the response wrapped in a closed
\* code fence, with or without the json tag, is normalised to the payload
\* itself (stripped of outer whitespace only) and yields the same result as
\* the payload without fence.
C2_FenceTransparent ==
    \A r \in Slots :
        LET q == req[r]
            bare == json_loads(Strip(q.payload, PyWhitespace)) IN
        (Answered(q) /\ q.fence \in ClosedFences /\ bare.ok /\ IsGridValue(bare.val)) =>
            /\ q.response_text = Strip(q.payload, PyWhitespace)
            /\ q.result = ResultOfResponse(q.payload)
            /\ q.result.success
            /\ q.result.table_data = bare.val

\* a fenced grid whose cells hold the characters strip removes was extracted
C2_Witness ==
    \E r \in Slots :
        /\ Answered(req[r])
        /\ req[r].fence = "jsonTight"
        /\ req[r].result.success
        /\ req[r].result.table_data =
              PyList(<<PyList(<<PyStr(JsonTag)>>), PyList(<<PyStr(<<BT>>)>>)>>)

\* C3: an upload whose content type is missing or does not start with
\* image/ is answered with 400, calls no AI capability and inserts no record.
C3_NonImageIs400 ==
    \A r \in Slots :
        (req[r].pc # "idle" /\ ~IsImage(req[r])) =>
            /\ req[r].pc = "done"
            /\ req[r].resp.status = 400
            /\ req[r].aiCalls = 0
            /\ req[r].record = NoRecord

\* the ids of the records of the store
StoredIds == {store[i].id : i \in DOMAIN store}

\* C4: a generate_excel request for an id that no stored record has is
\* answered with 404, builds no spreadsheet and leaves the store unchanged.
C4_UnknownIdIs404 ==
    [][(excel'.status # 0 /\ excel'.processing_id \notin StoredIds) =>
          /\ excel'.status = 404
          /\ ~excel'.built
          /\ excel'.table_data = PyNone
          /\ store' = store]_vars

\* an unknown id was asked for while the store held records
C4_Witness == excel.status = 404 /\ Len(store) = 2

\* C5: an upload answered with success = true has a processing_id, and a
\* record with that id, the uploaded filename and the returned table_data is
\* in the store when the response is produced; any generate_excel for the id
\* of a delivered response finds the record and renders the returned grid.
C5_SuccessIsStored ==
    /\ \A r \in Slots :
          (req[r].pc = "done" /\ req[r].resp.success) =>
              /\ req[r].resp.processing_id # NoId
              /\ \E i \in DOMAIN store :
                    /\ store[i].id = req[r].resp.processing_id
                    /\ store[i].filename = req[r].filename
                    /\ store[i].extracted_data = req[r].resp.table_data
    /\ \A d \in delivered :
          /\ d.processing_id \in StoredIds
          /\ (excel.status # 0 /\ excel.processing_id = d.processing_id) =>
                /\ excel.status = 200
                /\ excel.built
                /\ excel.filename = d.filename
                /\ excel.table_data = d.table_data

\* the grid of an earlier successful upload was exported after a later upload
C5_Witness ==
    /\ excel.status = 200
    /\ Len(store) = 2
    /\ excel.processing_id = store[1].id
    /\ \E d \in delivered : d.processing_id = excel.processing_id

\* C6: get_extractions returns at most ListLimit records, all of them when the
\* store holds no more, each a record of the store and none twice, in
\* descending order of created_at, and no record left out was created after a
\* returned one; after two uploads it returns the two records.
C6_RecentFirst ==
    listing.status = 200 =>
        LET recs == listing.records IN
        /\ Len(recs) = Min(Len(store), ListLimit)
        /\ \A i \in DOMAIN recs : \E k \in DOMAIN store : store[k] = recs[i]
        /\ \A i, j \in DOMAIN recs : i < j =>
              /\ recs[i].id # recs[j].id
              /\ recs[i].created_at >= recs[j].created_at
        /\ \A k \in DOMAIN store :
              (\A i \in DOMAIN recs : recs[i].id # store[k].id) =>
                  \A i \in DOMAIN recs : recs[i].created_at >= store[k].created_at
        /\ Len(store) = 2 => {recs[i] : i \in DOMAIN recs} = {store[1], store[2]}

\* the store held more than ListLimit records, the oldest of them of equal
\* created_at, and the listing was cut
C6_Witness ==
    /\ listing.status = 200
    /\ Len(store) > ListLimit
    /\ Len(listing.records) = ListLimit
    /\ store[1].created_at = store[2].created_at
    /\ listing.records[1].created_at > listing.records[ListLimit].created_at

\* C7: when the AI capability raises, it was invoked once, the extraction
\* result is success = false with table_data = null, and the upload is
\* answered 200 with success = false and no processing_id, without a record.
C7_FailureNoRetry ==
    \A r \in Slots :
        req[r].raised =>
            /\ req[r].aiCalls = 1
            /\ req[r].pc = "done"
            /\ ~req[r].result.success
            /\ req[r].result.table_data = PyNone
            /\ req[r].resp.status = 200
            /\ ~req[r].resp.success
            /\ req[r].resp.table_data = PyNone
            /\ req[r].resp.processing_id = NoId
            /\ req[r].record = NoRecord
            /\ \A i \in DOMAIN store : store[i].id \in {d.processing_id : d \in delivered}
                    \/ \E k \in Slots : k # r /\ req[k].record = store[i]

\* the capability failed with the credential configured, after a stored upload
C7_Witness ==
    \E r \in Slots : req[r].raised /\ keyPresent /\ Len(store) = 1

\* extract_table_from_image has been entered
Entered(q) == q.pc = "calling" \/ Extracted(q)

\* the message of an extraction from a response of the AI capability, line 117
GenuineMessage == "Table extracted successfully"

\* C8 as stated: without the credential EMERGENT_LLM_KEY the extraction is in
\* mock mode: no AI call, success = true with the placeholder grid.
C8_NoKeyIsMock ==
    \A r \in Slots :
        (~keyPresent /\ Entered(req[r])) =>
            /\ req[r].aiCalls = 0
            /\ Extracted(req[r]) => req[r].result = MockResult

\* C8: when the import of emergentintegrations failed (EMERGENT_AVAILABLE is
\* false), with or without the credential, the extraction makes no AI call and
\* returns success = true with the placeholder grid and a message that no
\* extraction from an AI response carries; with the import succeeded, no
\* extraction returns the placeholder result.
C8_MockWhenUnavailable ==
    \A r \in Slots :
        /\ (~EMERGENT_AVAILABLE /\ Entered(req[r])) =>
              /\ req[r].aiCalls = 0
              /\ Extracted(req[r])
              /\ req[r].result.success
              /\ req[r].result.table_data = MockGrid
              /\ req[r].result.message # GenuineMessage
        /\ (EMERGENT_AVAILABLE /\ Extracted(req[r])) =>
              /\ req[r].aiCalls = 1
              /\ req[r].result.message # MockResult.message
              /\ req[r].result.success => req[r].result.message = GenuineMessage

\* a mock extraction was returned with the credential configured
C8_Witness ==
    \E r \in Slots :
        /\ ~EMERGENT_AVAILABLE
        /\ keyPresent
        /\ req[r].pc = "done"
        /\ req[r].resp.success
        /\ req[r].resp.message = "Table extracted successfully (Mock data)"

\* C9: every stored record has a non-empty extracted_data; the store changes
\* only by a successful upload_image appending its record, so that no record
\* is ever modified or deleted, and generate_excel and get_extractions leave
\* the store as it is.
C9_StoreAppendOnly ==
    /\ [](\A i \in DOMAIN store :
             /\ store[i].extracted_data.kind = "list"
             /\ store[i].extracted_data.items # <<>>)
    /\ [][/\ store' # store =>
               \E r \in Slots :
                   /\ req[r].pc = "inserting"
                   /\ req[r].result.success
                   /\ req'[r].pc = "inserted"
                   /\ store' = Append(store, req[r].record)
          /\ (excel'.status # 0 \/ listing'.status # 0) => store' = store]_vars

\* a spreadsheet was generated from a store of two records
C9_Witness == Len(store) = 2 /\ excel.status = 200 /\ excel.processing_id = store[2].id

\* what upload_image answers to the request q alone
OwnResult(q) ==
    IF ~EMERGENT_AVAILABLE THEN MockResult
    ELSE IF q.raised THEN ResultOfFailure
    ELSE ResultOfResponse(Wrap(q.payload, q.fence))

\* C10: with uploads interleaved at their suspension points, the response of
\* each is the one its own content type, filename and AI response determine;
\* a successful one carries the id of its own record, which is in the store
\* with its filename and grid; the ids of the records are pairwise distinct.
C10_UploadsIndependent ==
    /\ \A i, j \in DOMAIN store : i # j => store[i].id # store[j].id
    /\ \A r \in Slots :
          (req[r].pc = "done" /\ IsImage(req[r])) =>
              LET q == req[r]
                  own == OwnResult(q) IN
              IF own.success /\ ValidGrid(own.table_data, coercing)
              THEN /\ q.resp = Response(200, TRUE, own.message,
                                        CoerceGrid(own.table_data), q.record.id)
                   /\ q.record.id # NoId
                   /\ \E i \in DOMAIN store :
                         /\ store[i].id = q.record.id
                         /\ store[i].filename = q.filename
                         /\ store[i].extracted_data = CoerceGrid(own.table_data)
                   /\ \A k \in Slots \ {r} :
                         req[k].pc = "done" => req[k].resp.processing_id # q.resp.processing_id
              ELSE IF own.success
              THEN q.resp.status = 500 /\ q.record = NoRecord
              ELSE q.resp = Response(200, FALSE, own.message, PyNone, NoId)

\* two uploads of different files overlapped: both succeeded, and the record
\* constructed second was inserted first
C10_Witness ==
    /\ \A r \in Slots : req[r].pc = "done" /\ req[r].resp.success
    /\ req[1].filename # req[2].filename
    /\ Len(store) = 2
    /\ store[1].id = 2
    /\ store[2].id = 1

\* the length of the longest string among the cells the grid has in column j
LongestInColumn(table_data, j) ==
    LET lens == {Len(table_data.items[i].items[j].text) :
                   i \in {k \in DOMAIN table_data.items :
                            j <= Len(table_data.items[k].items)}} IN
    CHOOSE n \in lens \cup {0} : \A k \in lens : k <= n

\* C11: the width set for each column of an exported grid is min(L + 2, 50),
\* L the length of the longest string of the column; it never exceeds 50, and
\* a cell that a row does not have contributes no length.
C11_WidthIsLongestPlusTwo ==
    excel.status = 200 =>
        \A j \in DOMAIN excel.widths :
            /\ excel.widths[j] = Min(LongestInColumn(excel.table_data, j) + 2, 50)
            /\ excel.widths[j] <= 50

====
